---------------------------- MODULE Spec2Model ----------------------------
(***************************************************************************)
(* A model of package rndstring (src/gen.go): the byte-fill facade         *)
(* (ReadBytes, ReadBytesNoFallback, ReadBytesFallback, skip), the alphabet *)
(* selector (selectNFrom), the generator constructors, the registry and    *)
(* Join.                                                                   *)
(*                                                                         *)
(* Bytes, runes and the characters of a string are numbers (a byte is      *)
(* 0..255, a character is its code point); a string and a slice are        *)
(* sequences.  Go indexes from 0 and TLA+ from 1: the element with Go      *)
(* index k of a slice s is s[k + 1].                                       *)
(***************************************************************************)
EXTENDS Integers, Sequences, FiniteSets, TLC

(***************************************************************************)
(* Bounds of the model.                                                    *)
(***************************************************************************)
\* the largest length N handed to a constructor or to selectNFrom
MaxN == 2
\* the largest buffer handed to ReadBytes and its variants
MaxBuf == 1
\* the position in the fallback stream is counted up to this many reads
MaxReads == 1
\* the largest number of generators handed to Join
MaxJoin == 2

\* the byte values the entropy sources deliver in the model
ByteSamples == {2, 255}
\* the values of time.Now().UnixNano() % 32 the model draws in skip()
SkipSamples == {0, 1, 31}
\* the values of byte(time.Now().UnixNano() % 256) the model draws
NowSamples == {0, 165}
\* the lengths N the model hands to the constructors
Lengths == (-1) .. MaxN

Range(n) == [i \in 1 .. n |-> i]
ByteSeqs(n) == [1 .. n -> ByteSamples]

(***************************************************************************)
(* Conversions of the language.                                            *)
(***************************************************************************)
\* byte(n) of a non-negative int: the low 8 bits
Byte(n) == n % 256

\* x ^ y on bytes
RECURSIVE Xor(_, _)
Xor(x, y) ==
  IF x = 0 THEN y
  ELSE IF y = 0 THEN x
  ELSE (((x % 2) + (y % 2)) % 2) + 2 * Xor(x \div 2, y \div 2)

\* a rune that string([]rune) keeps: a code point that is no surrogate
ValidRune(r) == /\ r >= 0
                /\ r <= 1114111
                /\ ~(r >= 55296 /\ r <= 57343)

\* string([]rune{r}): an invalid code point becomes U+FFFD
RuneToChar(r) == IF ValidRune(r) THEN r ELSE 65533

\* string(runes): the characters of the string a rune slice converts to
RunesToString(runes) == [i \in 1 .. Len(runes) |-> RuneToChar(runes[i])]

RECURSIVE Pow2(_)
Pow2(n) == IF n = 0 THEN 1 ELSE 2 * Pow2(n - 1)

RECURSIVE Repeat(_, _)
\* strings.Repeat(s, n) for n >= 0
Repeat(s, n) == IF n <= 0 THEN <<>> ELSE s \o Repeat(s, n - 1)

(***************************************************************************)
(* The alphabets of the package (src/gen.go:96-101, 251).                  *)
(***************************************************************************)
lowerCaseAlphabet == [i \in 1 .. 26 |-> 96 + i]
upperCaseAlphabet == [i \in 1 .. 26 |-> 64 + i]
digitsAlphabet == [i \in 1 .. 10 |-> 47 + i]
\* "+-*/@&^%|$#!?[]{}()\\:,.;="
symbolsAlphabet ==
  << 43, 45, 42, 47, 64, 38, 94, 37, 124, 36, 35, 33, 63, 91, 93, 123, 125,
     40, 41, 92, 58, 44, 46, 59, 61 >>
hexStrAlphabet == digitsAlphabet \o [i \in 1 .. 6 |-> 96 + i]

\* the tables of encoding/hex, encoding/base64 and encoding/base32
hextable == hexStrAlphabet
encodeStd == upperCaseAlphabet \o lowerCaseAlphabet \o digitsAlphabet \o <<43, 47>>
encodeURL == upperCaseAlphabet \o lowerCaseAlphabet \o digitsAlphabet \o <<45, 95>>
encodeStd32 == upperCaseAlphabet \o [i \in 1 .. 6 |-> 49 + i]
\* '='
StdPadding == 61
NoPadding == -1

\* hex.EncodeToString(b): two digits per byte, high nibble first
HexEncodeToString(b) ==
  [i \in 1 .. 2 * Len(b) |->
     IF i % 2 = 1 THEN hextable[(b[(i + 1) \div 2] \div 16) + 1]
     ELSE hextable[(b[i \div 2] % 16) + 1]]

\* bit i (1 is the highest bit of the first byte) of a group of bytes, 0 past
\* its end
GroupBit(g, i) ==
  IF i > 8 * Len(g) THEN 0
  ELSE (g[((i - 1) \div 8) + 1] \div Pow2(7 - ((i - 1) % 8))) % 2

RECURSIVE GroupDigit(_, _, _, _)
\* the value of the `bits` bits of the group that start after bit `from`
GroupDigit(g, from, bits, m) ==
  IF m > bits THEN 0
  ELSE GroupBit(g, from + m) * Pow2(bits - m) + GroupDigit(g, from, bits, m + 1)

\* one group of `size` bytes (the last may be shorter) as `bits`-bit digits
EncodeGroup(g, size, bits, table, pad) ==
  LET total == (size * 8) \div bits
      used == (Len(g) * 8 + bits - 1) \div bits
  IN  [k \in 1 .. used |-> table[GroupDigit(g, bits * (k - 1), bits, 1) + 1]]
      \o (IF pad = NoPadding THEN <<>> ELSE [k \in 1 .. total - used |-> pad])

RECURSIVE EncodeToString(_, _, _, _, _)
\* Encoding.EncodeToString of encoding/base64 (size 3, bits 6) and
\* encoding/base32 (size 5, bits 5)
EncodeToString(b, size, bits, table, pad) ==
  IF Len(b) = 0 THEN <<>>
  ELSE IF Len(b) <= size THEN EncodeGroup(b, size, bits, table, pad)
  ELSE EncodeGroup(SubSeq(b, 1, size), size, bits, table, pad)
       \o EncodeToString(SubSeq(b, size + 1, Len(b)), size, bits, table, pad)

(***************************************************************************)
(* What a call gives its caller: a value, an error value or a panic.       *)
(***************************************************************************)
Ok(v) == [kind |-> "ok", val |-> v]
Panic == [kind |-> "panic", val |-> <<>>]
Error == [kind |-> "error", val |-> <<>>]

(***************************************************************************)
(* The alphabet selector (src/gen.go:105-124).  a and j are the bytes the  *)
(* two ReadBytes calls left in the slices a and j.                         *)
(***************************************************************************)
RECURSIVE selectLoop(_, _, _, _, _, _)
\* the loop of selectNFrom from index i on; n is its bound; a % 0 panics, and
\* so does an index past the end of a slice
selectLoop(i, n, alphabets, a, j, t) ==
  IF i >= n THEN Ok(t)
  ELSE IF Byte(Len(alphabets)) = 0 THEN Panic
  ELSE LET a_ == a[i + 1] % Byte(Len(alphabets))
       IN  IF a_ >= Len(alphabets) THEN Panic
           ELSE IF Byte(Len(alphabets[a_ + 1])) = 0 THEN Panic
           ELSE LET j_ == j[i + 1] % Byte(Len(alphabets[a_ + 1]))
                IN  IF j_ >= Len(alphabets[a_ + 1]) THEN Panic
                    ELSE selectLoop(i + 1, n, alphabets, a, j,
                                    [t EXCEPT ![i + 1] = alphabets[a_ + 1][j_ + 1]])

\* a selector that chooses the alphabet by j and the symbol by a
selectNFromSwapped(N, alphabets, a, j) ==
  IF N < 0 THEN Ok(<<>>)
  ELSE selectLoop(0, N, alphabets, j, a, [k \in 1 .. N |-> 0])

\* a loop that stops one position early
selectNFromShort(N, alphabets, a, j) ==
  IF N < 0 THEN Ok(<<>>)
  ELSE selectLoop(0, N - 1, alphabets, a, j, [k \in 1 .. N |-> 0])

selectNFrom(N, alphabets, a, j) ==
  IF N < 0 THEN Ok(<<>>)
  ELSE selectLoop(0, N, alphabets, a, j, [k \in 1 .. N |-> 0])

(***************************************************************************)
(* Generators.  A generator is the closure a constructor returns: its kind *)
(* names the closure's code, N and alphabets are the values it captured,   *)
(* and ref is the slice of runes it reads (an address of the heap).        *)
(***************************************************************************)
Gen(kind, N, alphabets, ref) ==
  [kind |-> kind, N |-> N, alphabets |-> alphabets, ref |-> ref]
\* the nil StringGenerator
NoGen == Gen("nil", 0, <<>>, "none")

\* RandomBytes(N) (src/gen.go:371-377): make([]byte, N) panics for N < 0; b is
\* what ReadBytes left in the slice
RandomBytes(N, b) == IF N < 0 THEN Panic ELSE Ok(b)

RECURSIVE alphabetLoop(_, _, _, _, _)
\* the loop of the closure of NewAlphabetGenerator (src/gen.go:283-288)
alphabetLoop(i, N, alphabet_, indexes, runes) ==
  IF i >= N THEN Ok(runes)
  ELSE IF Byte(Len(alphabet_)) = 0 THEN Panic
  ELSE LET index == indexes[i + 1] % Byte(Len(alphabet_))
       IN  IF index >= Len(alphabet_) THEN Panic
           ELSE alphabetLoop(i + 1, N, alphabet_, indexes,
                             [runes EXCEPT ![i + 1] = alphabet_[index + 1]])

\* the closure of NewAlphabetGenerator (src/gen.go:274-291)
alphabetClosure(N, alphabet_, indexes) ==
  IF N < 0 THEN Ok(<<>>)
  ELSE LET r == alphabetLoop(0, N, alphabet_, indexes, [k \in 1 .. N |-> 0])
       IN  IF r.kind = "panic" THEN Panic ELSE Ok(RunesToString(r.val))

\* strings.Repeat panics on a negative count
dummyClosure(N) == IF N < 0 THEN Panic ELSE Ok(Repeat(<<65>>, N))

\* the closures of NewHexGenerator, NewBase64Generator, NewBase64URLGenerator
\* and NewBase32Generator (src/gen.go:50-85)
encodingClosure(kind, N, b) ==
  LET r == RandomBytes(N, b)
  IN  IF r.kind = "panic" THEN Panic
      ELSE CASE kind = "hex" -> Ok(HexEncodeToString(r.val))
             [] kind = "b64" -> Ok(EncodeToString(r.val, 3, 6, encodeStd, StdPadding))
             [] kind = "b64url" -> Ok(EncodeToString(r.val, 3, 6, encodeURL, NoPadding))
             [] kind = "b32" -> Ok(EncodeToString(r.val, 5, 5, encodeStd32, StdPadding))

\* g.Generate() (src/gen.go:43-45): mem is the heap, a and j the bytes the
\* entropy source delivers to the call
Generate(g, mem, a, j) ==
  CASE g.kind = "nil" -> Panic
    [] g.kind = "dummy" -> dummyClosure(g.N)
    [] g.kind = "select" -> selectNFrom(g.N, g.alphabets, a, j)
    [] g.kind = "alphabet" -> alphabetClosure(g.N, mem[g.ref], a)
    [] OTHER -> encodingClosure(g.kind, g.N, a)

\* the ReadBytes calls one Generate() makes: the lengths of their buffers
FillsOf(g) ==
  CASE g.kind \in {"nil", "dummy"} -> <<>>
    [] g.kind = "select" -> IF g.N < 0 THEN <<>> ELSE <<g.N, g.N>>
    [] g.kind = "alphabet" -> IF g.N < 0 THEN <<>> ELSE <<g.N>>
    [] OTHER -> IF g.N < 0 THEN <<>> ELSE <<g.N>>

\* the bytes the entropy source may deliver to one Generate() of g
DrawsOf(g) ==
  [a : ByteSeqs(IF g.kind \in {"nil", "dummy"} THEN 0 ELSE g.N),
   j : ByteSeqs(IF g.kind = "select" THEN g.N ELSE 0)]

(***************************************************************************)
(* Constructors (src/gen.go:50-94, 160-259).  A constructor is named by    *)
(* its Go name; "nil" is the nil function value and "failing" a function   *)
(* of the caller's that returns an error.                                  *)
(***************************************************************************)
SelectAlphabets ==
  [NewLowerCaseGenerator |-> <<lowerCaseAlphabet>>,
   NewUpperCaseGenerator |-> <<upperCaseAlphabet>>,
   NewDigitsGenerator |-> <<digitsAlphabet>>,
   NewSymbolsGenerator |-> <<symbolsAlphabet>>,
   NewLowerCaseDigitsGenerator |-> <<lowerCaseAlphabet, digitsAlphabet>>,
   NewUpperCaseDigitsGenerator |-> <<upperCaseAlphabet, digitsAlphabet>>,
   NewLowerCaseSymbolsGenerator |-> <<lowerCaseAlphabet, symbolsAlphabet>>,
   NewLettersGenerator |-> <<lowerCaseAlphabet, upperCaseAlphabet>>,
   NewLettersDigitsGenerator |->
     <<lowerCaseAlphabet, upperCaseAlphabet, digitsAlphabet>>,
   NewLettersSymbolsGenerator |->
     <<lowerCaseAlphabet, upperCaseAlphabet, symbolsAlphabet>>,
   NewLettersSymbolsDigitsGenerator |->
     <<lowerCaseAlphabet, upperCaseAlphabet, digitsAlphabet, symbolsAlphabet>>,
   NewHexStrGenerator |-> <<hexStrAlphabet>>]

EncodingKinds ==
  [NewHexGenerator |-> "hex", NewBase64Generator |-> "b64",
   NewBase64URLGenerator |-> "b64url", NewBase32Generator |-> "b32"]

\* fn(N) for a constructor fn that is not nil
CallConstructor(fn, N) ==
  CASE fn = "failing" -> [kind |-> "error", gen |-> NoGen]
    [] fn = "NewDummyGenerator" -> [kind |-> "ok", gen |-> Gen("dummy", N, <<>>, "none")]
    [] fn \in DOMAIN EncodingKinds ->
         [kind |-> "ok", gen |-> Gen(EncodingKinds[fn], N, <<>>, "none")]
    [] fn \in DOMAIN SelectAlphabets ->
         [kind |-> "ok", gen |-> Gen("select", N, SelectAlphabets[fn], "none")]

\* the initial value of the registry (src/gen.go:305-324)
BuiltinGenerators ==
  [hex |-> "NewHexGenerator", b64 |-> "NewBase64Generator",
   b64url |-> "NewBase64URLGenerator", b32 |-> "NewBase32Generator",
   dummy |-> "NewDummyGenerator", lcase |-> "NewLowerCaseGenerator",
   ucase |-> "NewUpperCaseGenerator", digits |-> "NewDigitsGenerator",
   symbols |-> "NewSymbolsGenerator"]
  @@ ("lcase&digits" :> "NewLowerCaseDigitsGenerator")
  @@ ("ucase&digits" :> "NewUpperCaseDigitsGenerator")
  @@ ("lcase&symbols" :> "NewLowerCaseSymbolsGenerator")
  @@ [letters |-> "NewLettersGenerator"]
  @@ ("letters&digits" :> "NewLettersDigitsGenerator")
  @@ ("letters&symbols" :> "NewLettersSymbolsGenerator")
  @@ ("letters&symbols&digits" :> "NewLettersSymbolsDigitsGenerator")
  @@ [ascii |-> "NewLettersSymbolsDigitsGenerator", hexstr |-> "NewHexStrGenerator"]

\* a registry that accepts a second registration of a name
RegisterOverwrite(registry, name, f) ==
  [kind |-> "ok", registry |-> (name :> f) @@ registry]

\* RegisterStringGenerator(name, f) (src/gen.go:340-348)
RegisterStringGenerator(registry, name, f) ==
  IF name \in DOMAIN registry
  THEN [kind |-> "panic", registry |-> registry]
  ELSE [kind |-> "ok", registry |-> (name :> f) @@ registry]

\* stringGenerators[name] (src/gen.go:355): the value of an absent key is
\* the nil function
NewStringGeneratorValue(registry, name) ==
  IF name \in DOMAIN registry THEN registry[name] ELSE "nil"

\* a lookup that registers the name it did not find
NewStringGeneratorInsert(registry, name, N) ==
  LET fn == IF name \in DOMAIN registry THEN registry[name] ELSE "nil"
  IN  IF fn = "nil"
      THEN [kind |-> "error", gen |-> NoGen, registry |-> (name :> "nil") @@ registry]
      ELSE CallConstructor(fn, N) @@ [registry |-> registry]

\* NewStringGenerator(name, N) (src/gen.go:354-368): the value of an absent
\* key is the nil function
NewStringGenerator(registry, name, N) ==
  LET fn == IF name \in DOMAIN registry THEN registry[name] ELSE "nil"
  IN  IF fn = "nil" THEN [kind |-> "error", gen |-> NoGen, registry |-> registry]
      ELSE LET r == CallConstructor(fn, N)
           IN  IF r.kind = "error"
               THEN [kind |-> "error", gen |-> NoGen, registry |-> registry]
               ELSE [kind |-> "ok", gen |-> r.gen, registry |-> registry]

\* StringGenerators() (src/gen.go:295-303): the keys, in no order
StringGenerators(registry) == DOMAIN registry

\* a constructor that accepts 256 symbols
NewAlphabetGeneratorOffByOne(N, alphabet) ==
  IF Len(alphabet) > 256 THEN [kind |-> "error", gen |-> NoGen, copy |-> <<>>]
  ELSE [kind |-> "ok", gen |-> Gen("alphabet", N, <<>>, "alphabet_"), copy |-> alphabet]

\* a constructor whose closure reads the caller's slice
NewAlphabetGeneratorAlias(N, alphabet) ==
  IF Len(alphabet) > 255 THEN [kind |-> "error", gen |-> NoGen, copy |-> <<>>]
  ELSE [kind |-> "ok", gen |-> Gen("alphabet", N, <<>>, "alphabet"), copy |-> alphabet]

\* NewAlphabetGenerator(N, alphabet) (src/gen.go:264-292): copy is the slice
\* alphabet_ the closure captures
NewAlphabetGenerator(N, alphabet) ==
  IF Len(alphabet) > 255 THEN [kind |-> "error", gen |-> NoGen, copy |-> <<>>]
  ELSE [kind |-> "ok", gen |-> Gen("alphabet", N, <<>>, "alphabet_"),
        copy |-> [i \in 1 .. Len(alphabet) |-> alphabet[i]]]

(***************************************************************************)
(* Join (src/gen.go:328-336).                                              *)
(***************************************************************************)
RECURSIVE stringsJoin(_, _)
\* strings.Join(parts, delim)
stringsJoin(parts, delim) ==
  IF Len(parts) = 0 THEN <<>>
  ELSE IF Len(parts) = 1 THEN parts[1]
  ELSE parts[1] \o delim \o stringsJoin(Tail(parts), delim)

RECURSIVE joinLoop(_, _, _, _, _, _)
\* the loop of Join from index i on: calls lists the generators whose
\* Generate() ran, in the order of the calls; a panic of one ends the loop
joinLoop(i, generators, mem, draws, parts, calls) ==
  IF i >= Len(generators) THEN [kind |-> "ok", parts |-> parts, calls |-> calls]
  ELSE LET g == generators[i + 1]
           r == Generate(g, mem, draws[i + 1].a, draws[i + 1].j)
       IN  IF r.kind = "panic"
           THEN [kind |-> "panic", parts |-> parts, calls |-> Append(calls, i + 1)]
           ELSE joinLoop(i + 1, generators, mem, draws,
                         [parts EXCEPT ![i + 1] = r.val], Append(calls, i + 1))

\* a Join that puts the delimiter after every part
JoinTrailing(delim, generators, mem, draws) ==
  LET l == joinLoop(0, generators, mem, draws,
                    [k \in 1 .. Len(generators) |-> <<>>], <<>>)
  IN  IF l.kind = "panic"
      THEN [kind |-> "panic", val |-> <<>>, calls |-> l.calls, parts |-> l.parts]
      ELSE [kind |-> "ok", calls |-> l.calls, parts |-> l.parts,
            val |-> stringsJoin([k \in 1 .. Len(l.parts) |-> l.parts[k] \o delim], <<>>)]

Join(delim, generators, mem, draws) ==
  LET l == joinLoop(0, generators, mem, draws,
                    [k \in 1 .. Len(generators) |-> <<>>], <<>>)
  IN  IF l.kind = "panic"
      THEN [kind |-> "panic", val |-> <<>>, calls |-> l.calls, parts |-> l.parts]
      ELSE [kind |-> "ok", val |-> stringsJoin(l.parts, delim), calls |-> l.calls,
            parts |-> l.parts]

(***************************************************************************)
(* The state.                                                              *)
(***************************************************************************)
VARIABLES
  \* the package: the registry, and the fallback source (the number of
  \* rnd.Read calls made on the stream, the holder of the mutex or 0, and the
  \* bytes of skipBuf)
  stringGenerators, rndReads, mutex, skipBuf,
  \* a caller of the API: the slices of runes ("alphabet" is the caller's,
  \* "alphabet_" the copy of the last NewAlphabetGenerator), the generator its
  \* last constructor call gave it, and what its last call did
  heap, gen, last,
  \* history: the alphabet handed to the last successful NewAlphabetGenerator,
  \* and for every name the constructor of the first registration call on it
  built, first,
  \* the concurrent callers of the byte-fill facade: the function each runs,
  \* where it is in it, its buffer, and the locals of ReadBytesFallback and skip
  op, pc, buf, loc,
  \* the default generator of the package (nil until it is set), and the
  \* concurrent callers of the registry and of the default generator: the
  \* call each is in with its locals, and the access to a package variable
  \* each has under way
  defaultStringGenerator, frame, acc

pkgVars == <<stringGenerators, rndReads, mutex, skipBuf>>
apiVars == <<heap, gen, last, built, first>>
fillVars == <<op, pc, buf, loc>>
sharedVars == <<defaultStringGenerator, frame, acc>>
vars == <<stringGenerators, rndReads, mutex, skipBuf, heap, gen, last, built,
          first, op, pc, buf, loc, defaultStringGenerator, frame, acc>>

\* the concurrent callers of the byte-fill facade
Procs == {1, 2}

\* len(skipBuf)
SkipBufLen == 13
\* what one rnd.Read(skipBuf) may leave in skipBuf
SkipFills == {[i \in 1 .. SkipBufLen |-> b] : b \in ByteSamples}

\* the record of a call: the function, what it gave (kind, val), and its
\* arguments (N, name, the size of the alphabet, the alphabet set, f, the
\* delimiter, the generators); for Join the indexes of the generators called,
\* in the order of the calls, and what each call returned; had tells whether
\* name had been registered before the call; for selectNFrom a and j are the
\* bytes its two ReadBytes calls left in a and in j
Call(o, kind, val) ==
  [op |-> o, kind |-> kind, val |-> val, N |-> 0, name |-> "", size |-> 0,
   set |-> "", f |-> "", delim |-> <<>>, generators |-> <<>>, calls |-> <<>>,
   parts |-> <<>>, had |-> FALSE, names |-> {}, a |-> <<>>, j |-> <<>>]

NoHeap == [alphabet |-> <<>>, alphabet_ |-> <<>>]

\* the locals of a call of the byte-fill facade: now and i of skip(), sbuf
\* and now (here t) of ReadBytesFallback, err of ReadBytes; and its history:
\* out is what rnd.Read left in buf, written the Go indexes of buf written,
\* reads the rnd.Read calls made (counted up to MaxReads), locks the
\* mutex.Lock calls that returned, fallbacks the calls of ReadBytesFallback,
\* steps the statements of ReadBytesFallback done, in the order it did them
IdleLoc == [now |-> 0, i |-> 0, sbuf |-> <<>>, out |-> <<>>, t |-> 0,
            err |-> FALSE, reads |-> 0, locks |-> 0, fallbacks |-> 0,
            written |-> {}, steps |-> <<>>]

\* a caller of the registry or of the default generator: the function it is
\* in (op), the statement it is at (at), its arguments (name, f, tg) and
\* locals (n is len(stringGenerators) as StringGenerators read it), and what
\* the call gave (res)
IdleFrame == [op |-> "none", at |-> "idle", name |-> "", f |-> "", tg |-> NoGen,
              n |-> 0, res |-> ""]

\* no access under way; an access is to a package variable (var), a read or
\* a write (mode), and raced tells that an access of another caller to the
\* same variable, one of the two a write, was under way at the same time
NoAccess == [var |-> "none", mode |-> "none", raced |-> FALSE]

Init ==
  /\ stringGenerators = BuiltinGenerators
  /\ rndReads = 0
  /\ mutex = 0
  /\ skipBuf = [i \in 1 .. SkipBufLen |-> 0]
  /\ heap = NoHeap
  /\ gen = NoGen
  /\ last = Call("none", "ok", <<>>)
  /\ built = <<>>
  /\ first = BuiltinGenerators
  /\ op = [p \in Procs |-> "none"]
  /\ pc = [p \in Procs |-> "idle"]
  /\ buf = [p \in Procs |-> <<>>]
  /\ loc = [p \in Procs |-> IdleLoc]
  /\ defaultStringGenerator = NoGen
  /\ frame = [p \in Procs |-> IdleFrame]
  /\ acc = [p \in Procs |-> NoAccess]

(***************************************************************************)
(* ReadBytes run to its end by a caller while no other caller is inside    *)
(* ReadBytesFallback (src/gen.go:380-386, 404-431).  One run of ReadBytes  *)
(* is [fb, k]: fb tells that crypto/rand failed, k is the number of reads  *)
(* skip() made.                                                            *)
(***************************************************************************)
FillRuns == {[fb |-> FALSE, k |-> 0]} \cup [fb : {TRUE}, k : SkipSamples]

\* the rnd.Read calls of one run: those of skip(), one for buf, one for sbuf
ReadsOfRun(c) == IF c.fb THEN c.k + 2 ELSE 0

\* the stream position, counted up to MaxReads
Count(n) == IF n > MaxReads THEN MaxReads ELSE n

RECURSIVE EffectsOf(_)
\* what n runs, one after the other, may do to the fallback source: the
\* number of rnd.Read calls, and whether one of them wrote skipBuf
EffectsOf(n) ==
  IF n = 0 THEN {[reads |-> 0, skipped |-> FALSE]}
  ELSE {[reads |-> Count(e.reads + ReadsOfRun(c)),
         skipped |-> e.skipped \/ (c.fb /\ c.k > 0)] :
          e \in EffectsOf(n - 1), c \in FillRuns}

\* the effect e on the fallback source; the mutex is free before the first
\* run and after the last
ReadBytesRuns(e) ==
  /\ mutex = 0
  /\ mutex' = mutex
  /\ rndReads' = Count(rndReads + e.reads)
  /\ IF e.skipped THEN skipBuf' \in SkipFills ELSE skipBuf' = skipBuf

(***************************************************************************)
(* The calls of a caller of the API, one action per call.                  *)
(***************************************************************************)
\* the names the model looks up: the built-in ones, one a caller may
\* register, and one nobody registers
UserNames == {"custom"}
Names == DOMAIN BuiltinGenerators \cup UserNames \cup {"no-such-name"}
\* the names the model registers: new ones and two built-in ones
RegisterNames == UserNames \cup {"dummy", "hex"}
\* the constructors the model registers
UserConstructors == {"nil", "failing", "NewDummyGenerator"}
\* the alphabets the model hands to NewAlphabetGenerator: none, one and three
\* symbols, an invalid code point, 255 and 256 symbols
AlphabetInputs ==
  {<<>>, <<97>>, <<251, 252, 224>>, <<97, 55296>>, Range(255), Range(256)}
\* the writes to its alphabet the caller makes: the Go index and the rune
WriteIndexes == {0, 2, 254}
WriteRunes == {33}

DoNewStringGenerator(name, N) ==
  LET r == NewStringGenerator(stringGenerators, name, N)
  IN  /\ stringGenerators' = r.registry
      /\ gen' = r.gen
      /\ last' = [Call("NewStringGenerator", r.kind, <<>>) EXCEPT
                    !.name = name, !.N = N, !.had = name \in DOMAIN first]
      \* the caller drops the alphabet and the generator it had
      /\ heap' = NoHeap
      /\ built' = <<>>
      /\ UNCHANGED <<rndReads, mutex, skipBuf, first>>
      /\ UNCHANGED <<fillVars, sharedVars>>

DoNewAlphabetGenerator(N, alphabet) ==
  LET r == NewAlphabetGenerator(N, alphabet)
  IN  /\ heap' = [alphabet |-> alphabet,
                  alphabet_ |-> IF r.kind = "ok" THEN r.copy ELSE heap["alphabet_"]]
      /\ gen' = r.gen
      /\ built' = IF r.kind = "ok" THEN alphabet ELSE built
      /\ last' = [Call("NewAlphabetGenerator", r.kind, <<>>) EXCEPT
                    !.N = N, !.size = Len(alphabet)]
      /\ UNCHANGED <<pkgVars, first>>
      /\ UNCHANGED <<fillVars, sharedVars>>

\* alphabet[i] = r, by the caller, on the slice it handed to the constructor
DoWriteAlphabet(i, r) ==
  /\ last.op \in {"NewAlphabetGenerator", "Generate", "write"}
  /\ gen.kind = "alphabet"
  /\ i < Len(heap["alphabet"])
  /\ heap["alphabet"][i + 1] # r
  /\ heap' = [heap EXCEPT !["alphabet"][i + 1] = r]
  /\ last' = [Call("write", "ok", <<>>) EXCEPT !.N = i]
  /\ UNCHANGED <<pkgVars, gen, built, first>>
  /\ UNCHANGED <<fillVars, sharedVars>>

\* gen.Generate() on a generator a constructor returned
DoGenerate ==
  /\ gen # NoGen
  /\ \E d \in DrawsOf(gen), e \in EffectsOf(Len(FillsOf(gen))) :
       LET r == Generate(gen, heap, d.a, d.j)
       IN  /\ ReadBytesRuns(e)
           /\ last' = [Call("Generate", r.kind, r.val) EXCEPT !.N = gen.N]
  /\ UNCHANGED <<stringGenerators, heap, gen, built, first>>
  /\ UNCHANGED <<fillVars, sharedVars>>

DoRegisterStringGenerator(name, f) ==
  LET r == RegisterStringGenerator(stringGenerators, name, f)
  IN  /\ stringGenerators' = r.registry
      /\ first' = IF name \in DOMAIN first THEN first ELSE (name :> f) @@ first
      /\ last' = [Call("RegisterStringGenerator", r.kind, <<>>) EXCEPT
                    !.name = name, !.f = f, !.had = name \in DOMAIN first]
      /\ UNCHANGED <<rndReads, mutex, skipBuf, heap, gen, built>>
      /\ UNCHANGED <<fillVars, sharedVars>>

DoStringGenerators ==
  /\ last' = [Call("StringGenerators", "ok", <<>>) EXCEPT
                !.names = StringGenerators(stringGenerators)]
  /\ UNCHANGED <<pkgVars, heap, gen, built, first>>
  /\ UNCHANGED <<fillVars, sharedVars>>

\* the generators the model hands to Join, as NewStringGenerator returns
\* them: the two of TestAPI (src/gen.go:491-492), one that panics, and one that
\* draws
JoinPool ==
  {NewStringGenerator(BuiltinGenerators, "dummy", 4).gen,
   NewStringGenerator(BuiltinGenerators, "dummy", 3).gen,
   NewStringGenerator(BuiltinGenerators, "dummy", -1).gen,
   NewStringGenerator(BuiltinGenerators, "lcase", 1).gen}
\* "-" and ""
Delims == {<<45>>, <<>>}

SeqsUpTo(S, n) == UNION {[1 .. k -> S] : k \in 0 .. n}

RECURSIVE DrawsOfAll(_)
DrawsOfAll(gs) ==
  IF gs = <<>> THEN {<<>>}
  ELSE {<<d>> \o rest : d \in DrawsOf(Head(gs)), rest \in DrawsOfAll(Tail(gs))}

RECURSIVE FillsOfAll(_, _)
\* the ReadBytes calls of the first n Generate() calls of Join
FillsOfAll(gs, n) ==
  IF n = 0 \/ gs = <<>> THEN <<>> ELSE FillsOf(Head(gs)) \o FillsOfAll(Tail(gs), n - 1)

DoJoin(delim, generators) ==
  /\ \E draws \in DrawsOfAll(generators) :
       LET r == Join(delim, generators, heap, draws)
       IN  \E e \in EffectsOf(Len(FillsOfAll(generators, Len(r.calls)))) :
             /\ ReadBytesRuns(e)
             /\ last' = [Call("Join", r.kind, r.val) EXCEPT
                           !.delim = delim, !.generators = generators,
                           !.calls = r.calls, !.parts = r.parts]
  /\ UNCHANGED <<stringGenerators, heap, gen, built, first>>
  /\ UNCHANGED <<fillVars, sharedVars>>

\* a caller that constructs generators and uses them
Next ==
  \/ \E name \in Names, N \in Lengths : DoNewStringGenerator(name, N)
  \/ \E N \in Lengths, alphabet \in AlphabetInputs : DoNewAlphabetGenerator(N, alphabet)
  \/ \E i \in WriteIndexes, r \in WriteRunes : DoWriteAlphabet(i, r)
  \/ DoGenerate

Spec == Init /\ [][Next]_vars

\* a caller that works on the registry
NextRegistry ==
  \/ \E name \in RegisterNames, f \in UserConstructors :
       DoRegisterStringGenerator(name, f)
  \/ \E name \in Names, N \in Lengths : DoNewStringGenerator(name, N)
  \/ DoStringGenerators

SpecRegistry == Init /\ [][NextRegistry]_vars

(***************************************************************************)
(* The alphabet selector on alphabet sets of every shape.                  *)
(***************************************************************************)
\* the alphabet sets the model hands to selectNFrom; the last four break the
\* bound of 255 alphabets of 1..255 symbols each
AlphabetSets ==
  [one |-> <<<<65>>>>,
   letters |-> <<lowerCaseAlphabet, upperCaseAlphabet>>,
   all |-> <<lowerCaseAlphabet, upperCaseAlphabet, digitsAlphabet, symbolsAlphabet>>,
   wide |-> <<Range(255), <<7>>>>,
   many |-> [k \in 1 .. 255 |-> <<k, 256 - k>>],
   none |-> <<>>,
   hollow |-> <<<<>>>>,
   over |-> <<Range(256)>>,
   crowd |-> [k \in 1 .. 256 |-> <<65>>]]

\* 1..255 alphabets of 1..255 symbols each
ValidSet(alphabets) ==
  /\ Len(alphabets) \in 1 .. 255
  /\ \A k \in 1 .. Len(alphabets) : Len(alphabets[k]) \in 1 .. 255

SymbolsOf(alphabets) ==
  UNION {{alphabets[k][i] : i \in 1 .. Len(alphabets[k])} : k \in 1 .. Len(alphabets)}

DoSelectNFrom(N, set) ==
  /\ \E a \in ByteSeqs(N), j \in ByteSeqs(N), e \in EffectsOf(IF N < 0 THEN 0 ELSE 2) :
       LET r == selectNFrom(N, AlphabetSets[set], a, j)
       IN  /\ ReadBytesRuns(e)
           /\ last' = [Call("selectNFrom", r.kind, r.val) EXCEPT
                         !.N = N, !.set = set, !.a = a, !.j = j]
  /\ UNCHANGED <<stringGenerators, heap, gen, built, first>>
  /\ UNCHANGED <<fillVars, sharedVars>>

NextSelect == \E N \in Lengths, set \in DOMAIN AlphabetSets : DoSelectNFrom(N, set)

SpecSelect == Init /\ [][NextSelect]_vars

(***************************************************************************)
(* The byte-fill facade, step by step, for concurrent callers              *)
(* (src/gen.go:380-431).  The places of a caller: "idle" (no call yet),    *)
(* "crand" (before crand.Read), "lock" (before mutex.Lock), "skip" (at the *)
(* start of skip), "loop" (in the loop of skip, and after it before the    *)
(* first rnd.Read of ReadBytesFallback), "mask" (before the second), "mix" *)
(* (before the loop that combines), "unlock" (before mutex.Unlock),        *)
(* "returned" and "panicked".                                              *)
(***************************************************************************)
Operations == {"ReadBytes", "ReadBytesNoFallback", "ReadBytesFallback"}

\* a ReadBytes that ignores the error of crypto/rand
ReadBytesIgnoresError(failed) == "returned"

\* where ReadBytes goes after crand.Read (src/gen.go:381-385)
ReadBytesAfterRead(failed) == IF failed THEN "lock" ELSE "returned"

\* a ReadBytesNoFallback that falls back
NoFallbackFallsBack(failed) == IF failed THEN "lock" ELSE "returned"

\* where ReadBytesNoFallback goes after crand.Read (src/gen.go:391-395)
NoFallbackAfterRead(failed) == IF failed THEN "panicked" ELSE "returned"

\* a caller calls o on a buffer of n bytes it made
Enter(p, o, n) ==
  /\ pc[p] \in {"idle", "returned"}
  /\ op' = [op EXCEPT ![p] = o]
  /\ buf' = [buf EXCEPT ![p] = [k \in 1 .. n |-> 0]]
  /\ loc' = [loc EXCEPT ![p] =
               [IdleLoc EXCEPT !.fallbacks = IF o = "ReadBytesFallback" THEN 1 ELSE 0]]
  /\ pc' = [pc EXCEPT ![p] = IF o = "ReadBytesFallback" THEN "lock" ELSE "crand"]
  /\ UNCHANGED <<pkgVars, apiVars, sharedVars>>

\* crand.Read(buf) and the test of its error: all of buf is written, or the
\* read fails after m bytes
CrandRead(p) ==
  /\ pc[p] = "crand"
  /\ \E failed \in BOOLEAN, m \in 0 .. Len(buf[p]), b \in ByteSeqs(Len(buf[p])) :
       LET next == IF op[p] = "ReadBytes" THEN ReadBytesAfterRead(failed)
                   ELSE NoFallbackAfterRead(failed)
       IN  /\ failed => m < Len(buf[p]) \/ m = 0
           /\ ~failed => m = Len(buf[p])
           /\ buf' = [buf EXCEPT ![p] = [k \in 1 .. Len(b) |-> IF k <= m THEN b[k] ELSE @[k]]]
           /\ loc' = [loc EXCEPT ![p].err = failed,
                                 ![p].written = 0 .. (m - 1),
                                 ![p].fallbacks = IF next = "lock" THEN 1 ELSE 0]
           /\ pc' = [pc EXCEPT ![p] = next]
  /\ UNCHANGED <<pkgVars, apiVars, sharedVars, op>>

\* a Lock that does not wait for the holder
LockNoWait(p) ==
  /\ pc[p] = "lock"
  /\ mutex' = p
  /\ loc' = [loc EXCEPT ![p].locks = @ + 1, ![p].steps = Append(@, "lock")]
  /\ pc' = [pc EXCEPT ![p] = "skip"]
  /\ UNCHANGED <<stringGenerators, rndReads, skipBuf, apiVars, sharedVars, op, buf>>

\* mutex.Lock() (src/gen.go:415)
Lock(p) ==
  /\ pc[p] = "lock"
  /\ mutex = 0
  /\ mutex' = p
  /\ loc' = [loc EXCEPT ![p].locks = @ + 1, ![p].steps = Append(@, "lock")]
  /\ pc' = [pc EXCEPT ![p] = "skip"]
  /\ UNCHANGED <<stringGenerators, rndReads, skipBuf, apiVars, sharedVars, op, buf>>

\* now := time.Now().UnixNano() % 32 (src/gen.go:405)
SkipEnter(p) ==
  /\ pc[p] = "skip"
  /\ \E now \in SkipSamples :
       loc' = [loc EXCEPT ![p].now = now, ![p].i = 0, ![p].steps = Append(@, "skip")]
  /\ pc' = [pc EXCEPT ![p] = "loop"]
  /\ UNCHANGED <<pkgVars, apiVars, sharedVars, op, buf>>

\* rnd.Read(skipBuf) (src/gen.go:407-409)
SkipRead(p) ==
  /\ pc[p] = "loop"
  /\ loc[p].i < loc[p].now
  /\ skipBuf' \in SkipFills
  /\ rndReads' = Count(rndReads + 1)
  /\ loc' = [loc EXCEPT ![p].i = @ + 1, ![p].reads = Count(@ + 1)]
  /\ UNCHANGED <<stringGenerators, mutex, apiVars, sharedVars, op, pc, buf>>

\* rnd.Read(buf) (src/gen.go:419)
Draw(p) ==
  /\ pc[p] = "loop"
  /\ loc[p].i >= loc[p].now
  /\ \E b \in ByteSeqs(Len(buf[p])) :
       /\ buf' = [buf EXCEPT ![p] = b]
       \* skip() has returned: its locals are gone
       /\ loc' = [loc EXCEPT ![p].out = b, ![p].reads = Count(@ + 1),
                             ![p].written = 0 .. (Len(b) - 1),
                             ![p].now = 0, ![p].i = 0,
                             ![p].steps = Append(@, "draw")]
  /\ rndReads' = Count(rndReads + 1)
  /\ pc' = [pc EXCEPT ![p] = "mask"]
  /\ UNCHANGED <<stringGenerators, mutex, skipBuf, apiVars, sharedVars, op>>

\* sbuf := make([]byte, len(buf)); rnd.Read(sbuf) (src/gen.go:420-421)
Mask(p) ==
  /\ pc[p] = "mask"
  /\ \E b \in ByteSeqs(Len(buf[p])) :
       loc' = [loc EXCEPT ![p].sbuf = b, ![p].reads = Count(@ + 1),
                          ![p].steps = Append(@, "mask")]
  /\ rndReads' = Count(rndReads + 1)
  /\ pc' = [pc EXCEPT ![p] = "mix"]
  /\ UNCHANGED <<stringGenerators, mutex, skipBuf, apiVars, sharedVars, op, buf>>

\* a loop that leaves out the time-derived byte
CombineNoTime(b, sbuf, now) == [k \in 1 .. Len(b) |-> Xor(b[k], sbuf[k])]

\* the bytes of buf after the loop that combines (src/gen.go:425-428)
Combine(b, sbuf, now) == [k \in 1 .. Len(b) |-> Xor(Xor(b[k], sbuf[k]), now)]

\* now := byte(time.Now().UnixNano() % 256) and the loop (src/gen.go:423-428)
Mix(p) ==
  /\ pc[p] = "mix"
  /\ \E t \in NowSamples :
       /\ loc' = [loc EXCEPT ![p].t = t, ![p].steps = Append(@, "mix")]
       /\ buf' = [buf EXCEPT ![p] = Combine(@, loc[p].sbuf, t)]
  /\ pc' = [pc EXCEPT ![p] = "unlock"]
  /\ UNCHANGED <<pkgVars, apiVars, sharedVars, op>>

\* a return that leaves the mutex locked
UnlockForgets(p) ==
  /\ pc[p] = "unlock"
  /\ loc' = [loc EXCEPT ![p].steps = Append(@, "unlock")]
  /\ pc' = [pc EXCEPT ![p] = "returned"]
  /\ UNCHANGED <<pkgVars, apiVars, sharedVars, op, buf>>

\* mutex.Unlock() and the return (src/gen.go:430-431)
Unlock(p) ==
  /\ pc[p] = "unlock"
  /\ mutex' = 0
  /\ loc' = [loc EXCEPT ![p].steps = Append(@, "unlock")]
  /\ pc' = [pc EXCEPT ![p] = "returned"]
  /\ UNCHANGED <<stringGenerators, rndReads, skipBuf, apiVars, sharedVars, op, buf>>

NextFill ==
  \E p \in Procs :
    \/ \E o \in Operations, n \in 0 .. MaxBuf : Enter(p, o, n)
    \/ CrandRead(p)
    \/ Lock(p)
    \/ SkipEnter(p)
    \/ SkipRead(p)
    \/ Draw(p)
    \/ Mask(p)
    \/ Mix(p)
    \/ Unlock(p)

SpecFill == Init /\ [][NextFill]_vars

\* the scheduling of the callers: a caller that can make the next step of
\* its ReadBytesFallback makes it, and a caller that waits in mutex.Lock()
\* while the mutex is free again and again gets it (sync.Mutex hands a
\* mutex to a starving waiter); nothing makes a caller call
Fairness ==
  \A p \in Procs :
    /\ SF_vars(Lock(p))
    /\ WF_vars(SkipEnter(p))
    /\ WF_vars(SkipRead(p))
    /\ WF_vars(Draw(p))
    /\ WF_vars(Mask(p))
    /\ WF_vars(Mix(p))
    /\ WF_vars(Unlock(p))

SpecFillFair == Init /\ [][NextFill]_vars /\ Fairness

\* a caller that joins generators
NextJoin ==
  \E delim \in Delims, gs \in SeqsUpTo(JoinPool, MaxJoin) : DoJoin(delim, gs)

SpecJoin == Init /\ [][NextJoin]_vars

(***************************************************************************)
(* The registry and the default generator with concurrent callers          *)
(* (src/gen.go:25-34, 295-303, 340-368), statement by statement.  No       *)
(* statement of these functions takes a lock.  An access to a package      *)
(* variable has a beginning and an end; an access that overlaps an access  *)
(* of another caller to the same variable, one of them a write, is a data  *)
(* race, and what it reads then is any of the values the build may give.   *)
(* The statements (at): "lookup" (gen.go:341), "store" (347), "fetch"      *)
(* (355), "len" (296), "range" (298-301), "assign" (33), "load" (26).      *)
(***************************************************************************)
SharedOps == {"RegisterStringGenerator", "NewStringGenerator", "StringGenerators",
              "SetDefaultStringGenerator", "Generate"}
SharedNames == {"custom", "hex"}
SharedConstructors == {"NewDummyGenerator", "NewHexGenerator"}
DefaultGenerators == {Gen("dummy", 1, <<>>, "none"), Gen("dummy", 2, <<>>, "none")}

\* the first statement of a function
EntryOf(o) ==
  CASE o = "RegisterStringGenerator" -> "lookup"
    [] o = "NewStringGenerator" -> "fetch"
    [] o = "StringGenerators" -> "len"
    [] o = "SetDefaultStringGenerator" -> "assign"
    [] o = "Generate" -> "load"

\* the package variable a statement accesses, and how
AccessOf(at) ==
  CASE at \in {"lookup", "fetch", "len", "range"} ->
         [var |-> "stringGenerators", mode |-> "r", raced |-> FALSE]
    [] at = "store" -> [var |-> "stringGenerators", mode |-> "w", raced |-> FALSE]
    [] at = "assign" -> [var |-> "defaultStringGenerator", mode |-> "w", raced |-> FALSE]
    [] at = "load" -> [var |-> "defaultStringGenerator", mode |-> "r", raced |-> FALSE]
    [] OTHER -> NoAccess

\* two accesses to one variable, one of them a write
Conflict(a, b) ==
  /\ a.var # "none"
  /\ a.var = b.var
  /\ "w" \in {a.mode, b.mode}

\* a caller calls o
Invoke(p, o, name, f, tg) ==
  /\ frame[p].at \in {"idle", "done", "panicked"}
  /\ frame' = [frame EXCEPT ![p] =
                 [IdleFrame EXCEPT !.op = o, !.at = EntryOf(o),
                    !.name = IF o \in {"RegisterStringGenerator", "NewStringGenerator"}
                             THEN name ELSE "",
                    !.f = IF o = "RegisterStringGenerator" THEN f ELSE "",
                    !.tg = IF o = "SetDefaultStringGenerator" THEN tg ELSE NoGen]]
  /\ UNCHANGED <<pkgVars, apiVars, fillVars, defaultStringGenerator, acc>>

\* the access of the statement the caller is at begins
StartAccess(p) ==
  /\ acc[p] = NoAccess
  /\ AccessOf(frame[p].at) # NoAccess
  /\ LET a == AccessOf(frame[p].at)
     IN  acc' = [q \in Procs |->
                   IF q = p
                   THEN [a EXCEPT !.raced = \E r \in Procs \ {p} : Conflict(a, acc[r])]
                   ELSE IF Conflict(a, acc[q]) THEN [acc[q] EXCEPT !.raced = TRUE]
                   ELSE acc[q]]
  /\ UNCHANGED <<pkgVars, apiVars, fillVars, defaultStringGenerator, frame>>

\* the runtime finds the map read and written, or written twice, at the
\* same time: "fatal error: concurrent map read and map write", and the
\* program ends
Fatal(p) ==
  /\ acc[p].var = "stringGenerators"
  /\ acc[p].raced
  /\ frame' = [q \in Procs |-> [frame[q] EXCEPT !.at = "fatal"]]
  /\ acc' = [q \in Procs |-> NoAccess]
  /\ UNCHANGED <<pkgVars, apiVars, fillVars, defaultStringGenerator>>

\* _, ok := stringGenerators[name]; if ok { panic(..) } (src/gen.go:341-345)
Lookup(p) ==
  /\ frame[p].at = "lookup"
  /\ acc[p] # NoAccess
  /\ \E ok \in BOOLEAN :
       /\ ~acc[p].raced => (ok <=> frame[p].name \in DOMAIN stringGenerators)
       /\ frame' = [frame EXCEPT ![p].at = IF ok THEN "panicked" ELSE "store",
                                 ![p].res = IF ok THEN "panic" ELSE ""]
  /\ acc' = [acc EXCEPT ![p] = NoAccess]
  /\ UNCHANGED <<pkgVars, apiVars, fillVars, defaultStringGenerator>>

\* stringGenerators[name] = f (src/gen.go:347)
Store(p) ==
  /\ frame[p].at = "store"
  /\ acc[p] # NoAccess
  /\ stringGenerators' = (frame[p].name :> frame[p].f) @@ stringGenerators
  /\ first' = IF frame[p].name \in DOMAIN first THEN first
              ELSE (frame[p].name :> frame[p].f) @@ first
  /\ frame' = [frame EXCEPT ![p].at = "done", ![p].res = "ok"]
  /\ acc' = [acc EXCEPT ![p] = NoAccess]
  /\ UNCHANGED <<rndReads, mutex, skipBuf, heap, gen, last, built, fillVars,
                 defaultStringGenerator>>

\* fn := stringGenerators[name] and the rest of NewStringGenerator
\* (src/gen.go:355-367)
Fetch(p) ==
  /\ frame[p].at = "fetch"
  /\ acc[p] # NoAccess
  /\ \E fn \in SharedConstructors \cup {"nil"} \cup
                {stringGenerators[k] : k \in DOMAIN stringGenerators}, N \in Lengths :
       /\ ~acc[p].raced =>
            fn = NewStringGeneratorValue(stringGenerators, frame[p].name)
       /\ frame' = [frame EXCEPT ![p].at = "done",
                                 ![p].res = IF fn = "nil" THEN "error"
                                            ELSE CallConstructor(fn, N).kind]
  /\ acc' = [acc EXCEPT ![p] = NoAccess]
  /\ UNCHANGED <<pkgVars, apiVars, fillVars, defaultStringGenerator>>

\* keys := make([]string, len(stringGenerators)) (src/gen.go:296)
KeysLen(p) ==
  /\ frame[p].at = "len"
  /\ acc[p] # NoAccess
  /\ frame' = [frame EXCEPT ![p].at = "range",
                            ![p].n = Cardinality(DOMAIN stringGenerators)]
  /\ acc' = [acc EXCEPT ![p] = NoAccess]
  /\ UNCHANGED <<pkgVars, apiVars, fillVars, defaultStringGenerator>>

\* for k := range stringGenerators { keys[i] = k; i++ } (src/gen.go:297-302):
\* keys[i] is out of range when the map has grown since its len was read
KeysRange(p) ==
  /\ frame[p].at = "range"
  /\ acc[p] # NoAccess
  /\ LET grown == Cardinality(DOMAIN stringGenerators) > frame[p].n
     IN  frame' = [frame EXCEPT ![p].at = IF grown THEN "panicked" ELSE "done",
                                ![p].res = IF grown THEN "panic" ELSE "ok"]
  /\ acc' = [acc EXCEPT ![p] = NoAccess]
  /\ UNCHANGED <<pkgVars, apiVars, fillVars, defaultStringGenerator>>

\* defaultStringGenerator = tg (src/gen.go:33)
Assign(p) ==
  /\ frame[p].at = "assign"
  /\ acc[p] # NoAccess
  /\ defaultStringGenerator' = frame[p].tg
  /\ frame' = [frame EXCEPT ![p].at = "done", ![p].res = "ok"]
  /\ acc' = [acc EXCEPT ![p] = NoAccess]
  /\ UNCHANGED <<pkgVars, apiVars, fillVars>>

\* return defaultStringGenerator.Generate() (src/gen.go:26): a call on the
\* nil interface panics; a read that races a write may see either word of
\* the interface value old or new
Load(p) ==
  /\ frame[p].at = "load"
  /\ acc[p] # NoAccess
  /\ \E g \in DefaultGenerators \cup {NoGen} :
       /\ ~acc[p].raced => g = defaultStringGenerator
       /\ LET r == IF g = NoGen THEN Panic ELSE Generate(g, NoHeap, <<>>, <<>>)
          IN  frame' = [frame EXCEPT ![p].at = IF r.kind = "ok" THEN "done" ELSE "panicked",
                                     ![p].res = r.kind]
  /\ acc' = [acc EXCEPT ![p] = NoAccess]
  /\ UNCHANGED <<pkgVars, apiVars, fillVars, defaultStringGenerator>>

NextShared ==
  \E p \in Procs :
    \/ \E o \in SharedOps, name \in SharedNames, f \in SharedConstructors,
          tg \in DefaultGenerators : Invoke(p, o, name, f, tg)
    \/ StartAccess(p)
    \/ Fatal(p)
    \/ Lookup(p)
    \/ Store(p)
    \/ Fetch(p)
    \/ KeysLen(p)
    \/ KeysRange(p)
    \/ Assign(p)
    \/ Load(p)

SpecShared == Init /\ [][NextShared]_vars

(***************************************************************************)
(* The properties.                                                         *)
(***************************************************************************)
Elems(seq) == {seq[k] : k \in 1 .. Len(seq)}
InFallback == {"skip", "loop", "mask", "mix", "unlock"}

\* C1: ReadBytes never fails to its caller.  A caller of ReadBytes never
\* panics; its call ran ReadBytesFallback exactly when crypto/rand reported an
\* error, and then once; while it waits for the mutex the holder is a caller
\* on its way to mutex.Unlock; and when it has returned every position of
\* its buffer has been written, the mutex is not its own, and after an error
\* the fallback took the mutex once and read the stream.
C1_ReadBytesNeverFails ==
  \A p \in Procs :
    op[p] = "ReadBytes" =>
      /\ pc[p] # "panicked"
      /\ pc[p] # "crand" => loc[p].fallbacks = (IF loc[p].err THEN 1 ELSE 0)
      /\ pc[p] = "lock" => mutex = 0 \/ (mutex # p /\ pc[mutex] \in InFallback)
      /\ pc[p] \in InFallback => mutex = p
      /\ pc[p] = "returned" =>
           /\ loc[p].written = 0 .. (Len(buf[p]) - 1)
           /\ mutex # p
           /\ loc[p].err => loc[p].locks = 1 /\ loc[p].reads > 0
           /\ ~loc[p].err => loc[p].locks = 0 /\ loc[p].reads = 0

\* a ReadBytes whose crypto/rand failed before the first byte has returned,
\* with its buffer written by the fallback
C1_Witness ==
  \E p \in Procs :
    /\ op[p] = "ReadBytes"
    /\ pc[p] = "returned"
    /\ loc[p].err
    /\ Len(buf[p]) = MaxBuf
    /\ loc[p].written = 0 .. (MaxBuf - 1)
    /\ buf[p] = Combine(loc[p].out, loc[p].sbuf, loc[p].t)

\* C2: ReadBytesNoFallback panics whenever crypto/rand fails and performs no
\* fallback.  A caller of ReadBytesNoFallback is before crand.Read, has
\* returned or has panicked; it has panicked exactly when crypto/rand
\* reported an error; it never ran ReadBytesFallback, never took the mutex
\* and never read the fallback stream.
C2_NoFallbackPanics ==
  \A p \in Procs :
    op[p] = "ReadBytesNoFallback" =>
      /\ pc[p] \in {"crand", "returned", "panicked"}
      /\ pc[p] = "panicked" <=> loc[p].err
      /\ pc[p] = "returned" => ~loc[p].err /\ loc[p].written = 0 .. (Len(buf[p]) - 1)
      /\ loc[p].fallbacks = 0
      /\ loc[p].locks = 0
      /\ loc[p].reads = 0
      /\ mutex # p

\* a ReadBytesNoFallback has panicked while the other caller, in the
\* fallback, holds the mutex
C2_Witness ==
  \E p \in Procs :
    /\ op[p] = "ReadBytesNoFallback"
    /\ pc[p] = "panicked"
    /\ loc[p].err
    /\ mutex \notin {0, p}

\* C3: for N >= 0 and a set of 1..255 alphabets of 1..255 symbols each,
\* selectNFrom returns exactly N symbols, each of them a symbol of one of the
\* alphabets, whatever bytes the entropy source delivered.
C3_SelectLengthAndMembership ==
  (last.op = "selectNFrom" /\ last.N >= 0 /\ ValidSet(AlphabetSets[last.set])) =>
    /\ last.kind = "ok"
    /\ Len(last.val) = last.N
    /\ \A k \in 1 .. Len(last.val) : last.val[k] \in SymbolsOf(AlphabetSets[last.set])

\* selectNFrom has returned MaxN symbols of 255 alphabets, not all the same
C3_Witness ==
  /\ last.op = "selectNFrom"
  /\ last.set = "many"
  /\ last.N = MaxN
  /\ last.kind = "ok"
  /\ Len(last.val) = MaxN
  /\ Cardinality(Elems(last.val)) > 1

\* C4: for a negative N, Generate() of every generator returns the empty
\* string and never panics.
C4_NegativeLengthGivesEmptyString ==
  (last.op = "Generate" /\ last.N < 0) => (last.kind = "ok" /\ last.val = <<>>)

\* C5: once a constructor has returned a generator, every Generate() succeeds,
\* and NewAlphabetGenerator rejects every alphabet whose size is not in 1..255.
C5_GenerateNeverFails ==
  /\ last.op = "Generate" => last.kind = "ok"
  /\ (last.op = "NewAlphabetGenerator" /\ last.size \notin 1 .. 255) =>
       last.kind = "error"

\* C6: NewAlphabetGenerator returns an error and the nil generator for an
\* alphabet of 256 or more symbols, and a generator and no error for one of
\* 255 or fewer, for every N.
C6_AlphabetSizeLimit ==
  last.op = "NewAlphabetGenerator" =>
    /\ last.size >= 256 => (last.kind = "error" /\ gen = NoGen)
    /\ last.size <= 255 =>
         (last.kind = "ok" /\ gen = Gen("alphabet", last.N, <<>>, "alphabet_"))

\* NewAlphabetGenerator has refused an alphabet of 256 symbols
C6_Witness ==
  /\ last.op = "NewAlphabetGenerator"
  /\ last.size = 256
  /\ last.kind = "error"
  /\ gen = NoGen

\* C7 as stated: every symbol of an output of a generator of
\* NewAlphabetGenerator is a member of the alphabet as it was at construction.
C7_OutputInBuiltAlphabet ==
  (last.op = "Generate" /\ gen.kind = "alphabet" /\ last.kind = "ok") =>
    \A k \in 1 .. Len(last.val) : last.val[k] \in Elems(built)

\* C7, amended: whatever the caller wrote to its alphabet after construction,
\* every symbol of an output is the character string(runes) makes of a member
\* of the alphabet as it was at construction: the member itself, or U+FFFD
\* for a member that is no valid code point.
C7_OutputFromBuiltAlphabet ==
  (last.op = "Generate" /\ gen.kind = "alphabet" /\ last.kind = "ok") =>
    \A k \in 1 .. Len(last.val) : last.val[k] \in {RuneToChar(r) : r \in Elems(built)}

\* a generator has returned the first symbol of the alphabet it was built
\* with after the caller overwrote the first element of its slice
C7_Witness ==
  /\ last.op = "Generate"
  /\ gen.kind = "alphabet"
  /\ last.kind = "ok"
  /\ Len(built) >= 1
  /\ heap["alphabet"][1] # built[1]
  /\ \E k \in 1 .. Len(last.val) : last.val[k] = built[1]

\* the parts, with delim between consecutive ones, built from the left
RECURSIVE Interleave(_, _, _)
Interleave(parts, delim, k) ==
  IF k = 0 THEN <<>>
  ELSE IF k = 1 THEN parts[1]
  ELSE Interleave(parts, delim, k - 1) \o delim \o parts[k]

\* C8: a Join that returns has called Generate() once on each listed
\* generator, in list order, and returns the results in that order with delim
\* between consecutive results and none at either end; a Join that panics
\* has called a prefix of the list; Join("-", dummy 4, dummy 3) is "AAAA-AAA".
C8_JoinConcatenates ==
  last.op = "Join" =>
    /\ last.kind = "ok" =>
         /\ last.calls = Range(Len(last.generators))
         /\ Len(last.parts) = Len(last.generators)
         /\ last.val = Interleave(last.parts, last.delim, Len(last.parts))
    /\ last.kind = "panic" =>
         last.calls = Range(Len(last.calls)) /\ Len(last.calls) <= Len(last.generators)
    /\ (/\ last.delim = <<45>>
        /\ last.generators = <<Gen("dummy", 4, <<>>, "none"), Gen("dummy", 3, <<>>, "none")>>)
       => last.val = <<65, 65, 65, 65, 45, 65, 65, 65>>

\* the Join of TestAPI has returned "AAAA-AAA"
C8_Witness ==
  /\ last.op = "Join"
  /\ last.kind = "ok"
  /\ last.delim = <<45>>
  /\ last.generators = <<Gen("dummy", 4, <<>>, "none"), Gen("dummy", 3, <<>>, "none")>>
  /\ last.calls = <<1, 2>>
  /\ last.val = <<65, 65, 65, 65, 45, 65, 65, 65>>

\* C9: RegisterStringGenerator on a name that is in the registry panics and
\* leaves the registry as it was: every name maps to the constructor of the
\* first registration call on it.
C9_DuplicateRegistrationPanics ==
  /\ stringGenerators = first
  /\ last.op = "RegisterStringGenerator" =>
       /\ last.had => last.kind = "panic"
       /\ ~last.had => (last.kind = "ok" /\ stringGenerators[last.name] = last.f)

\* a second registration of a name a caller registered, with another
\* constructor, has panicked
C9_Witness ==
  /\ last.op = "RegisterStringGenerator"
  /\ last.name \in UserNames
  /\ last.had
  /\ last.kind = "panic"
  /\ stringGenerators[last.name] # last.f

\* C10: NewStringGenerator on a name that was never registered returns an
\* error and the nil generator, for every N, and adds nothing to the
\* registry: the names StringGenerators() returns are the registered ones.
C10_UnknownNameIsAnError ==
  /\ (last.op = "NewStringGenerator" /\ ~last.had) =>
       /\ last.kind = "error"
       /\ gen = NoGen
       /\ last.name \notin StringGenerators(stringGenerators)
  /\ last.op = "NewStringGenerator" => DOMAIN stringGenerators = DOMAIN first
  /\ last.op = "StringGenerators" => last.names = DOMAIN first

\* the lookup of a name nobody registered has failed
C10_Witness ==
  /\ last.op = "NewStringGenerator"
  /\ last.name = "no-such-name"
  /\ ~last.had
  /\ last.kind = "error"
  /\ gen = NoGen

\* the callers inside the critical section of ReadBytesFallback
Inside == {p \in Procs : pc[p] \in InFallback}

\* caller p makes a step that reads the fallback stream: an rnd.Read of
\* skip(), the rnd.Read(buf) or the rnd.Read(sbuf)
DrawStep(p) ==
  /\ pc[p] \in {"loop", "mask"}
  /\ pc'[p] \in {"loop", "mask", "mix"}
  /\ loc'[p] # loc[p]

\* C11: with concurrent callers of ReadBytes and ReadBytesFallback, each on
\* its own buffer, at most one caller at a time is inside the critical
\* section and it is the holder of the mutex; every read of the stream and
\* every write of skipBuf is made by the holder, which stays the holder, while
\* no other caller is between its first and its last read and no other
\* caller's buffer or draws change; and the buffer of a fallback call that
\* returned holds the bytes computed from the draws of that call.
C11_FallbackCallsDoNotInterleave ==
  /\ [](Cardinality(Inside) <= 1 /\ \A p \in Inside : mutex = p)
  /\ [](\A p \in Procs :
          (pc[p] = "returned" /\ loc[p].fallbacks = 1) =>
            \A k \in 1 .. Len(buf[p]) :
              buf[p][k] = Xor(Xor(loc[p].out[k], loc[p].sbuf[k]), loc[p].t))
  /\ [][/\ \A p \in Procs :
             DrawStep(p) =>
               /\ mutex = p /\ mutex' = p
               /\ \A q \in Procs \ {p} :
                    /\ pc[q] \notin InFallback
                    /\ buf'[q] = buf[q]
                    /\ loc'[q] = loc[q]
        /\ (skipBuf' # skipBuf \/ rndReads' # rndReads) =>
             \E p \in Procs : DrawStep(p)]_vars

\* a caller waits for the mutex while the other, which holds it, has made
\* its skip draws and its output draw and is before its mask draw
C11_Witness ==
  \E p, q \in Procs :
    /\ p # q
    /\ pc[p] = "lock"
    /\ pc[q] = "mask"
    /\ mutex = q
    /\ skipBuf # [i \in 1 .. SkipBufLen |-> 0]
    /\ Len(buf[q]) = MaxBuf /\ Len(buf[p]) = MaxBuf

\* C12: the fallback source is the only shared mutable state: no two
\* concurrent callers of the public operations ever access the same package
\* variable at the same time, one of them writing, outside a lock; so no
\* access races, the runtime never ends the program, and a name keeps the
\* constructor of its first registration.
C12_NoUnguardedSharedState ==
  /\ \A p, q \in Procs : p # q => ~Conflict(acc[p], acc[q])
  /\ \A p \in Procs : ~acc[p].raced /\ frame[p].at # "fatal"
  /\ stringGenerators = first

\* C13: for N > 0 and a set of 1..255 alphabets of 1..255 symbols each,
\* selectNFrom has drawn N bytes a and then N bytes j, and position i of what
\* it returns is alphabets[a[i] mod len(alphabets)][j[i] mod len(that
\* alphabet)] for every i: a function of a and j by this reduction alone,
\* with both indexes in range.
C13_SelectByModuloReduction ==
  (last.op = "selectNFrom" /\ last.N > 0 /\ ValidSet(AlphabetSets[last.set])) =>
    LET set == AlphabetSets[last.set]
    IN  /\ last.kind = "ok"
        /\ Len(last.a) = last.N /\ Len(last.j) = last.N /\ Len(last.val) = last.N
        /\ \A i \in 1 .. last.N :
             LET ai == last.a[i] % Len(set)
                 ji == last.j[i] % Len(set[ai + 1])
             IN  /\ ai \in 0 .. (Len(set) - 1)
                 /\ ji \in 0 .. (Len(set[ai + 1]) - 1)
                 /\ last.val[i] = set[ai + 1][ji + 1]

\* selectNFrom has reduced the byte 255 to the fourth of four alphabets and
\* to the sixth of its 25 symbols, and the byte 2 to the third alphabet
C13_Witness ==
  /\ last.op = "selectNFrom"
  /\ last.set = "all"
  /\ last.N = MaxN
  /\ last.a[1] = 255 /\ last.j[1] = 255
  /\ last.a[MaxN] = 2
  /\ last.kind = "ok"
  /\ last.val[1] = symbolsAlphabet[6]
  /\ last.val[MaxN] \in Elems(digitsAlphabet)

\* the statements of one ReadBytesFallback, in the order of the source
FallbackOrder == <<"lock", "skip", "draw", "mask", "mix", "unlock">>

IsPrefix(x, y) == Len(x) <= Len(y) /\ \A k \in 1 .. Len(x) : x[k] = y[k]

C15_LockHeldAndReleased ==
  /\ [](/\ mutex = 0 <=> Inside = {}
        /\ mutex # 0 => Inside = {mutex}
        /\ \A p \in Procs :
             /\ pc[p] \in {"idle", "crand", "lock", "returned", "panicked"} => mutex # p
             /\ pc[p] = "lock" => "lock" \notin Elems(loc[p].steps)
             /\ pc[p] \in InFallback => loc[p].steps[1] = "lock")
  /\ \A p \in Procs : (pc[p] = "lock") ~> (mutex = p)
  /\ \A p \in Procs : (pc[p] \in InFallback \cup {"lock"}) ~> (pc[p] = "returned")

\* both callers have returned from a ReadBytesFallback, each having taken
\* the mutex once, and the mutex is free
C15_Witness ==
  /\ \A p \in Procs :
       /\ op[p] = "ReadBytesFallback"
       /\ pc[p] = "returned"
       /\ loc[p].locks = 1
       /\ loc[p].steps = FallbackOrder
  /\ mutex = 0

=============================================================================
